---- MODULE Spec2Model ----
(***************************************************************************)
(* TwitchDropsMinerApp (src/main.py): the application controller, the      *)
(* asyncio loop it runs on a background thread, and the Kivy clock queue   *)
(* through which the background thread's callbacks reach the UI thread.    *)
(*                                                                         *)
(* Two threads are modelled.  The UI thread runs build(), the action       *)
(* handlers (start_mining, stop_mining, login, logout, on_stop), screen    *)
(* navigation and the clock tick, one source statement per step.  The      *)
(* background thread runs _run_event_loop: it drains the loop's ready      *)
(* queue in batches and, inside the client's coroutines, invokes the       *)
(* on_* callbacks of the controller.                                       *)
(*                                                                         *)
(* SpecBoot covers what precedes and surrounds the controller: the module  *)
(* level of main.py (LOG_DIR, _excepthook, the stderr tee, the imports,    *)
(* the logging handlers), then the stream calls, uncaught exceptions and   *)
(* notifications of the running application.                               *)
(***************************************************************************)
EXTENDS Integers, Sequences, FiniteSets, TLC

\* ---------------------------------------------------------------- constants
LOG_LIMIT == 500

\* ------------------------------------------------------------------- bounds
MaxPrints == 502
MaxMainPrints == 1
MaxReady == 3
MaxUiQueue == 2
MaxCalls == 4
MaxEvents == 2

\* ------------------------------------------------------------------- inputs
Tokens == {"abc123", "xyz"}
AllTokens == Tokens \cup {""}
MainMsgs == {1}
Statuses == {"mining"}
Progresses == {<<1, 2>>}
Channels == {"chan"}
Drops == {"drop"}
Inventories == {<<"drop">>}
\* 'logs' is the screen update_logs_ui asks for; 'home' stands for the others.
NavTargets == {"home", "logs"}
Texts == {"warning"}
Titles == {"Drop claimed"}
\* The environments main.py can be imported in: ANDROID_ARGUMENT set or not,
\* whether the external and the internal log directory can be created,
\* whether Path.home() resolves and its log directory can be created, and
\* whether the third-party imports succeed.
Envs == [android : BOOLEAN, extOk : BOOLEAN, intOk : BOOLEAN, homeOk : BOOLEAN,
         homeDirOk : BOOLEAN, importsOk : BOOLEAN]

VARIABLES
    built,      \* build() has run: twitch_client and screen_manager are set
    running,    \* twitch_client._running
    token,      \* settings.oauth_token
    tokenVer,   \* number of writes made to settings.oauth_token
    savedToken, \* the token the last settings.save() persisted
    current,    \* screen_manager.current
    screens,    \* what each screen displays
    logs,       \* self.logs
    hist,       \* every message passed to on_print, in call order
    crashLog,   \* the lines of crash.log
    uiQueue,    \* Clock events scheduled and not yet run
    uiExec,     \* the last posted callback that ran: which, where, its effect
    uiPc,       \* the UI thread's call stack: frames [fn, i], i the next statement
    uiArg,      \* login's oauth_token argument
    callName,   \* the handler the UI thread runs or ran last
    callLog,    \* what that handler has done so far, in order
    callVer,    \* the token version login's own write produces
    guardSaw,   \* what the last guard of start_mining or stop_mining evaluated to
    ncalls,     \* handler invocations so far
    thrPc,      \* async_thread: created, running (in run_forever), exited
    ready,      \* loop._ready
    batchLeft,  \* handles left to run in the current loop iteration
    stopping,   \* loop._stopping
    loopClosed, \* loop.is_closed()
    active,     \* a coroutine of the client has begun to run
    raised,     \* a handler ended in an exception
    bgPc,       \* the background thread's position inside on_print
    bgMsg,      \* on_print's message argument
    startSubs,  \* start coroutines submitted since the client last stopped
    stopReqs,   \* loop.stop requests made by on_stop
    loginSaw,   \* token version the last login coroutine read, and the one it was submitted with
    env,        \* the process environment the module is imported in
    bootPc,     \* the module-level statement of main.py to run next
    logDir,     \* LOG_DIR
    hook,       \* sys.excepthook is _excepthook
    tee,        \* sys.stderr is the _TeeStream
    handles,    \* the writers that hold crash.log open
    stderrOut,  \* what has reached the original stderr
    crash,      \* the last uncaught exception and what became of it
    teeOp,      \* the last call on the _TeeStream and its outcome
    notify,     \* the last on_notify call and its outcome
    nevents     \* run-time events (stream calls, exceptions, notifications) so far

vars == <<built, running, token, tokenVer, savedToken, current, screens, logs,
          hist, crashLog, uiQueue, uiExec, uiPc, uiArg, callName,
          callLog, callVer, guardSaw, ncalls, thrPc, ready, batchLeft,
          stopping, loopClosed, active, raised, bgPc, bgMsg, startSubs, stopReqs,
          loginSaw, env, bootPc, logDir, hook, tee, handles, stderrOut, crash,
          teeOp, notify, nevents>>

bootVars == <<env, bootPc, logDir, hook, tee, handles, stderrOut, crash,
              teeOp, notify, nevents>>
uiVars == <<uiPc, uiArg, callName, callLog, callVer, guardSaw, ncalls>>
settingsVars == <<token, tokenVer, savedToken>>
screenVars == <<current, screens, uiQueue, uiExec>>
logVars == <<logs, hist, crashLog, bgPc, bgMsg>>
loopVars == <<thrPc, ready, batchLeft, stopping, loopClosed, active>>
ghostVars == <<startSubs, stopReqs, loginSaw>>

NoScreens == [status |-> "none", progress |-> <<0, 0>>, channel |-> "none",
              drop |-> "none", inventory |-> <<>>, log |-> 0]
NoExec == [func |-> "none", arg |-> "none", at |-> "none", thread |-> "none",
           applied |-> FALSE, tick |-> 0]

NoCrash == [origin |-> "none", step |-> "none", hookAt |-> FALSE,
            teeAt |-> FALSE, header |-> FALSE, passedOn |-> FALSE]
NoTee == [op |-> "none", text |-> "none", origOk |-> TRUE, logged |-> FALSE,
          forwarded |-> FALSE, result |-> 0, raised |-> FALSE, pc |-> "done"]
NoNotify == [title |-> "none", failed |-> FALSE, propagated |-> FALSE,
             pc |-> "done"]

\* The module level of main.py has run to the end on a desktop whose home
\* directory is writable: the state TwitchDropsMinerApp is constructed in.
Booted ==
    /\ env = [android |-> FALSE, extOk |-> TRUE, intOk |-> TRUE,
              homeOk |-> TRUE, homeDirOk |-> TRUE, importsOk |-> TRUE]
    /\ bootPc = "running"
    /\ logDir = "home"
    /\ hook = TRUE
    /\ tee = TRUE
    /\ handles = {"crash_log_handler"}
    /\ stderrOut = <<>>
    /\ crash = NoCrash
    /\ teeOp = NoTee
    /\ notify = NoNotify
    /\ nevents = 0

\* ------------------------------------------------------------ __init__
\* Settings() loads the persisted token; the loop exists and its thread has
\* been started but may not have reached run_forever yet.
Init ==
    /\ built = FALSE
    /\ running = FALSE
    /\ token \in AllTokens
    /\ tokenVer = 0
    /\ savedToken = token
    /\ current = "none"
    /\ screens = NoScreens
    /\ logs = <<>>
    /\ hist = <<>>
    /\ crashLog = <<>>
    /\ uiQueue = <<>>
    /\ uiExec = NoExec
    /\ uiPc = <<>>
    /\ uiArg = ""
    /\ callName = "none"
    /\ callLog = <<>>
    /\ callVer = 0
    /\ guardSaw = FALSE
    /\ ncalls = 0
    /\ thrPc = "created"
    /\ ready = <<>>
    /\ batchLeft = 0
    /\ stopping = FALSE
    /\ loopClosed = FALSE
    /\ active = FALSE
    /\ raised = FALSE
    /\ bgPc = "idle"
    /\ bgMsg = 0
    /\ startSubs = 0
    /\ stopReqs = 0
    /\ loginSaw = <<0, 0>>
    /\ Booted

\* ------------------------------------------------- the asyncio event loop
\* A handle for the ready queue; late records that it was made after
\* run_forever had returned.
Handle(kind, coro, ver) ==
    [kind |-> kind, coro |-> coro, ver |-> ver, late |-> thrPc = "exited"]

\* loop.call_soon_threadsafe(h): refused with RuntimeError by a closed loop,
\* otherwise h joins the ready queue, whether or not the loop is running.
CallSoonThreadsafe_NeedsRunningLoop(h) ==
    IF loopClosed \/ thrPc = "exited"
    THEN raised' = TRUE /\ ready' = ready
    ELSE raised' = raised /\ ready' = Append(ready, h)
CallSoonThreadsafe(h) ==
    IF loopClosed
    THEN raised' = TRUE /\ ready' = ready
    ELSE raised' = raised /\ ready' = Append(ready, h)

\* asyncio.run_coroutine_threadsafe(coro, loop): the callback it hands to
\* call_soon_threadsafe wraps the coroutine in a task when the loop runs it.
RunCoroutineThreadsafe(coro, ver) ==
    CallSoonThreadsafe(Handle("submit", coro, ver))

BgIdle == thrPc = "running" /\ bgPc = "idle"

\* async_thread reaches loop.run_forever().
RunEventLoop ==
    /\ thrPc = "created"
    /\ thrPc' = "running"
    /\ UNCHANGED <<bootVars, built, running, settingsVars, screenVars, logVars, uiVars,
                   ready, batchLeft, stopping, loopClosed, active, raised,
                   ghostVars>>

\* One iteration of run_forever: the handles ready at its start are run.
RunOnce ==
    /\ BgIdle
    /\ batchLeft = 0
    /\ ~stopping
    /\ ready # <<>>
    /\ batchLeft' = Len(ready)
    /\ UNCHANGED <<bootVars, built, running, settingsVars, screenVars, logVars, uiVars,
                   thrPc, ready, stopping, loopClosed, active, raised,
                   ghostVars>>

HandleReady(kind, coro) ==
    /\ BgIdle
    /\ batchLeft > 0
    /\ Head(ready).kind = kind
    /\ Head(ready).coro = coro
    /\ batchLeft' = batchLeft - 1

\* loop.stop(), run as a handle: the loop leaves after this iteration.
LoopStop ==
    /\ HandleReady("stop", "none")
    /\ stopping' = TRUE
    /\ ready' = Tail(ready)
    /\ UNCHANGED <<bootVars, built, running, settingsVars, screenVars, logVars, uiVars,
                   thrPc, loopClosed, active, raised, ghostVars>>

\* The submitted callback creates the task; its first step is a new handle.
EnsureFuture ==
    /\ \E c \in {"start", "stop", "login"} : HandleReady("submit", c)
    /\ ready' = Append(Tail(ready), [Head(ready) EXCEPT !.kind = "step"])
    /\ UNCHANGED <<bootVars, built, running, settingsVars, screenVars, logVars, uiVars,
                   thrPc, stopping, loopClosed, active, raised, ghostVars>>

\* run_forever returns once an iteration ends with _stopping set; the thread
\* function returns with it.  The loop is left open.
RunForeverExit_Closing ==
    /\ BgIdle
    /\ batchLeft = 0
    /\ stopping
    /\ thrPc' = "exited"
    /\ stopping' = FALSE
    /\ loopClosed' = TRUE
    /\ UNCHANGED <<bootVars, built, running, settingsVars, screenVars, logVars, uiVars,
                   ready, batchLeft, active, raised, ghostVars>>
RunForeverExit ==
    /\ BgIdle
    /\ batchLeft = 0
    /\ stopping
    /\ thrPc' = "exited"
    /\ stopping' = FALSE
    /\ UNCHANGED <<bootVars, built, running, settingsVars, screenVars, logVars, uiVars,
                   ready, batchLeft, loopClosed, active, raised, ghostVars>>

\* ------------------------------------------------- the client's coroutines
\* TwitchClient.start(): marks the client running.
ClientStart ==
    /\ HandleReady("step", "start")
    /\ ready' = Tail(ready)
    /\ running' = TRUE
    /\ active' = TRUE
    /\ UNCHANGED <<bootVars, built, settingsVars, screenVars, logVars, uiVars, thrPc,
                   stopping, loopClosed, raised, ghostVars>>

\* TwitchClient.stop(): marks the client stopped.
ClientStop ==
    /\ HandleReady("step", "stop")
    /\ ready' = Tail(ready)
    /\ running' = FALSE
    /\ active' = TRUE
    /\ startSubs' = 0
    /\ UNCHANGED <<bootVars, built, settingsVars, screenVars, logVars, uiVars, thrPc,
                   stopping, loopClosed, raised, stopReqs, loginSaw>>

\* TwitchClient.login(): reads settings.oauth_token.
ClientLogin ==
    /\ HandleReady("step", "login")
    /\ ready' = Tail(ready)
    /\ active' = TRUE
    /\ loginSaw' = <<tokenVer, Head(ready).ver>>
    /\ UNCHANGED <<bootVars, built, running, settingsVars, screenVars, logVars, uiVars,
                   thrPc, stopping, loopClosed, raised, startSubs, stopReqs>>

\* ------------------------------------------------------ settings, screens
\* Settings.save(force): persists the settings; the call returns with the
\* token on disk.
SettingsSave(force) == savedToken' = token

\* What running a posted callback on `thread` does to the screens.  Only
\* update_logs_ui looks at the screen shown, and it does so when it runs;
\* cb.at, the screen shown when it was posted, is carried along unused.
RunCallback_ScreenAtPost(cb, thread) ==
    LET applied == cb.func # "update_logs_ui" \/ cb.at = "logs" IN
    /\ uiExec' = [func |-> cb.func, arg |-> cb.arg, at |-> cb.at,
                  thread |-> thread, applied |-> applied,
                  tick |-> 1 - uiExec.tick]
    /\ screens' =
         CASE cb.func = "update_logs_ui" ->
                IF applied THEN [screens EXCEPT !.log = cb.arg] ELSE screens
           [] cb.func = "update_status" -> [screens EXCEPT !.status = cb.arg]
           [] cb.func = "update_progress" -> [screens EXCEPT !.progress = cb.arg]
           [] cb.func = "update_channel" -> [screens EXCEPT !.channel = cb.arg]
           [] cb.func = "update_drop" -> [screens EXCEPT !.drop = cb.arg]
           [] cb.func = "update_inventory" -> [screens EXCEPT !.inventory = cb.arg]
RunCallback(cb, thread) ==
    LET applied == cb.func # "update_logs_ui" \/ current = "logs" IN
    /\ uiExec' = [func |-> cb.func, arg |-> cb.arg, at |-> cb.at,
                  thread |-> thread, applied |-> applied,
                  tick |-> 1 - uiExec.tick]
    /\ screens' =
         CASE cb.func = "update_logs_ui" ->
                IF applied THEN [screens EXCEPT !.log = cb.arg] ELSE screens
           [] cb.func = "update_status" -> [screens EXCEPT !.status = cb.arg]
           [] cb.func = "update_progress" -> [screens EXCEPT !.progress = cb.arg]
           [] cb.func = "update_channel" -> [screens EXCEPT !.channel = cb.arg]
           [] cb.func = "update_drop" -> [screens EXCEPT !.drop = cb.arg]
           [] cb.func = "update_inventory" -> [screens EXCEPT !.inventory = cb.arg]

\* The screen shown when update_logs_ui is posted, noted for that callback
\* alone.
ShownAtPost(func) == IF func = "update_logs_ui" THEN current ELSE "none"

\* _update_ui(func, args): Clock.schedule_once queues the call for the UI
\* thread's next frame and returns.
UpdateUi_Sync(func, arg) ==
    /\ RunCallback([func |-> func, arg |-> arg, at |-> ShownAtPost(func)], "bg")
    /\ uiQueue' = uiQueue
UpdateUi(func, arg) ==
    /\ uiQueue' = Append(uiQueue, [func |-> func, arg |-> arg,
                                   at |-> ShownAtPost(func)])
    /\ UNCHANGED <<screens, uiExec>>

\* ------------------------------------------------ the UI thread's handlers
StartMiningBody == <<"if_not_running", "submit_start">>
StopMiningBody == <<"if_running", "submit_stop">>
LoginBody_SubmitFirst == <<"submit_login", "set_token", "save", "nav_home">>
LoginBody == <<"set_token", "save", "submit_login", "nav_home">>
LogoutBody_ClearFirst == <<"clear_token", "call_stop_mining", "save", "nav_login">>
LogoutBody == <<"call_stop_mining", "clear_token", "save", "nav_login">>
OnStopBody_SaveFirst == <<"save_force", "loop_stop">>
OnStopBody == <<"loop_stop", "save_force">>

Body(fn) ==
    CASE fn = "start_mining" -> StartMiningBody
      [] fn = "stop_mining" -> StopMiningBody
      [] fn = "login" -> LoginBody
      [] fn = "logout" -> LogoutBody
      [] fn = "on_stop" -> OnStopBody

Frame(fn, i) == [fn |-> fn, i |-> i]
Top == uiPc[Len(uiPc)]
Stmt == IF uiPc = <<>> THEN "none" ELSE Body(Top.fn)[Top.i]

\* Frames that have run their last statement return to their caller.
RECURSIVE Unwind(_)
Unwind(st) ==
    IF st = <<>> THEN st
    ELSE IF st[Len(st)].i > Len(Body(st[Len(st)].fn))
         THEN Unwind(SubSeq(st, 1, Len(st) - 1))
         ELSE st

Stepped == [uiPc EXCEPT ![Len(uiPc)].i = @ + 1]
Advance == Unwind(Stepped)
Return == Unwind(SubSeq(uiPc, 1, Len(uiPc) - 1))
\* An exception leaves every frame.
AfterSubmit == IF loopClosed THEN <<>> ELSE Advance

Ev(op, val, force) == [op |-> op, val |-> val, force |-> force]
Did(op, val, force) == callLog' = Append(callLog, Ev(op, val, force))

\* The UI framework invokes a handler; nothing of it has run yet.
Call(fn, arg) ==
    /\ uiPc = <<>>
    /\ ncalls < MaxCalls
    /\ Len(ready) < MaxReady
    /\ uiPc' = <<Frame(fn, 1)>>
    /\ uiArg' = arg
    /\ callName' = fn
    /\ callLog' = <<>>
    /\ callVer' = tokenVer + 1
    /\ guardSaw' = FALSE
    /\ ncalls' = ncalls + 1
    /\ UNCHANGED <<bootVars, built, running, settingsVars, screenVars, logVars,
                   loopVars, raised, ghostVars>>

CallStartMining == Call("start_mining", "")
CallStopMining == Call("stop_mining", "")
CallLogin == built /\ \E t \in Tokens : Call("login", t)
CallLogout == built /\ Call("logout", "")
CallOnStop == built /\ Call("on_stop", "")

StartGuard == built /\ ~running
StopGuard_ClientOnly == built
StopGuard == built /\ running

\* if self.twitch_client and not self.twitch_client._running:
IfNotRunning ==
    /\ Stmt = "if_not_running"
    /\ guardSaw' = StartGuard
    /\ uiPc' = IF StartGuard THEN Advance ELSE Return
    /\ UNCHANGED <<bootVars, built, running, settingsVars, screenVars, logVars,
                   loopVars, raised, ghostVars, uiArg, callName, callLog,
                   callVer, ncalls>>

\* if self.twitch_client and self.twitch_client._running:
IfRunning ==
    /\ Stmt = "if_running"
    /\ guardSaw' = StopGuard
    /\ uiPc' = IF StopGuard THEN Advance ELSE Return
    /\ UNCHANGED <<bootVars, built, running, settingsVars, screenVars, logVars,
                   loopVars, raised, ghostVars, uiArg, callName, callLog,
                   callVer, ncalls>>

\* asyncio.run_coroutine_threadsafe(self.twitch_client.start(), self.loop)
SubmitStart ==
    /\ Stmt = "submit_start"
    /\ RunCoroutineThreadsafe("start", 0)
    /\ startSubs' = IF loopClosed THEN startSubs ELSE startSubs + 1
    /\ Did("submit", "start", FALSE)
    /\ uiPc' = AfterSubmit
    /\ UNCHANGED <<bootVars, built, running, settingsVars, screenVars, logVars, thrPc,
                   batchLeft, stopping, loopClosed, active, stopReqs,
                   loginSaw, uiArg, callName, callVer, guardSaw, ncalls>>

\* asyncio.run_coroutine_threadsafe(self.twitch_client.stop(), self.loop)
SubmitStop ==
    /\ Stmt = "submit_stop"
    /\ RunCoroutineThreadsafe("stop", 0)
    /\ Did("submit", "stop", FALSE)
    /\ uiPc' = AfterSubmit
    /\ UNCHANGED <<bootVars, built, running, settingsVars, screenVars, logVars, thrPc,
                   batchLeft, stopping, loopClosed, active, ghostVars, uiArg,
                   callName, callVer, guardSaw, ncalls>>

\* self.settings.oauth_token = oauth_token
SetToken ==
    /\ Stmt = "set_token"
    /\ token' = uiArg
    /\ tokenVer' = tokenVer + 1
    /\ Did("token", uiArg, FALSE)
    /\ uiPc' = Advance
    /\ UNCHANGED <<bootVars, built, running, savedToken, screenVars, logVars, loopVars,
                   raised, ghostVars, uiArg, callName, callVer, guardSaw,
                   ncalls>>

\* self.settings.oauth_token = ""
ClearToken ==
    /\ Stmt = "clear_token"
    /\ token' = ""
    /\ tokenVer' = tokenVer + 1
    /\ Did("token", "", FALSE)
    /\ uiPc' = Advance
    /\ UNCHANGED <<bootVars, built, running, savedToken, screenVars, logVars, loopVars,
                   raised, ghostVars, uiArg, callName, callVer, guardSaw,
                   ncalls>>

\* self.settings.save()
Save ==
    /\ Stmt = "save"
    /\ SettingsSave(FALSE)
    /\ Did("save", token, FALSE)
    /\ uiPc' = Advance
    /\ UNCHANGED <<bootVars, built, running, token, tokenVer, screenVars, logVars,
                   loopVars, raised, ghostVars, uiArg, callName, callVer,
                   guardSaw, ncalls>>

\* self.settings.save(force=True)
SaveForce ==
    /\ Stmt = "save_force"
    /\ SettingsSave(TRUE)
    /\ Did("save", token, TRUE)
    /\ uiPc' = Advance
    /\ UNCHANGED <<bootVars, built, running, token, tokenVer, screenVars, logVars,
                   loopVars, raised, ghostVars, uiArg, callName, callVer,
                   guardSaw, ncalls>>

\* asyncio.run_coroutine_threadsafe(self.twitch_client.login(), self.loop)
SubmitLogin ==
    /\ Stmt = "submit_login"
    /\ RunCoroutineThreadsafe("login", callVer)
    /\ Did("submit", "login", FALSE)
    /\ uiPc' = AfterSubmit
    /\ UNCHANGED <<bootVars, built, running, settingsVars, screenVars, logVars, thrPc,
                   batchLeft, stopping, loopClosed, active, ghostVars, uiArg,
                   callName, callVer, guardSaw, ncalls>>

\* self.screen_manager.current = 'home'
NavHome ==
    /\ Stmt = "nav_home"
    /\ current' = "home"
    /\ Did("current", "home", FALSE)
    /\ uiPc' = Advance
    /\ UNCHANGED <<bootVars, built, running, settingsVars, screens, uiQueue, uiExec,
                   logVars, loopVars, raised, ghostVars, uiArg, callName,
                   callVer, guardSaw, ncalls>>

\* self.screen_manager.current = 'login'
NavLogin ==
    /\ Stmt = "nav_login"
    /\ current' = "login"
    /\ Did("current", "login", FALSE)
    /\ uiPc' = Advance
    /\ UNCHANGED <<bootVars, built, running, settingsVars, screens, uiQueue, uiExec,
                   logVars, loopVars, raised, ghostVars, uiArg, callName,
                   callVer, guardSaw, ncalls>>

\* self.stop_mining(), called by logout
StopMiningCalled ==
    /\ Stmt = "call_stop_mining"
    /\ uiPc' = Append(Stepped, Frame("stop_mining", 1))
    /\ UNCHANGED <<bootVars, built, running, settingsVars, screenVars, logVars,
                   loopVars, raised, ghostVars, uiArg, callName, callLog,
                   callVer, guardSaw, ncalls>>

\* self.loop.call_soon_threadsafe(self.loop.stop)
LoopStopRequest ==
    /\ Stmt = "loop_stop"
    /\ CallSoonThreadsafe(Handle("stop", "none", 0))
    /\ stopReqs' = stopReqs + 1
    /\ Did("loop_stop", "", FALSE)
    /\ uiPc' = AfterSubmit
    /\ UNCHANGED <<bootVars, built, running, settingsVars, screenVars, logVars, thrPc,
                   batchLeft, stopping, loopClosed, active, startSubs,
                   loginSaw, uiArg, callName, callVer, guardSaw, ncalls>>

\* build(): the screens and the client are created; the first screen is
\* chosen by the stored token.
Build ==
    /\ ~built
    /\ uiPc = <<>>
    /\ built' = TRUE
    /\ current' = IF token # "" THEN "home" ELSE "login"
    /\ UNCHANGED <<bootVars, running, settingsVars, screens, uiQueue, uiExec, logVars,
                   uiVars, loopVars, raised, ghostVars>>

\* The user moves to another screen.
Navigate(s) ==
    /\ built
    /\ uiPc = <<>>
    /\ s # current
    /\ current' = s
    /\ callName' = "navigate"
    /\ callLog' = <<>>
    /\ UNCHANGED <<bootVars, built, running, settingsVars, screens, uiQueue, uiExec,
                   logVars, loopVars, raised, ghostVars, uiPc, uiArg, callVer,
                   guardSaw, ncalls>>

\* The Kivy clock runs the oldest scheduled event on the UI thread.
ClockTick ==
    /\ uiPc = <<>>
    /\ uiQueue # <<>>
    /\ RunCallback(Head(uiQueue), "ui")
    /\ uiQueue' = Tail(uiQueue)
    /\ UNCHANGED <<bootVars, built, running, settingsVars, current, logVars, uiVars,
                   loopVars, raised, ghostVars>>

\* --------------------------------- the callbacks, on the background thread
\* The client invokes them from its coroutines.
BgCanCall == BgIdle /\ built /\ active /\ Len(uiQueue) < MaxUiQueue

\* The line a handler of the root logger writes for logger.info(message):
\* where it goes, the level and the message.
LogLine(via, message) == <<via, "INFO", message>>

\* logger.info(message): the stream handler writes the line to sys.stderr,
\* the tee, which appends it to crash.log; crash_log_handler then writes the
\* line to crash.log through its own handle.
LoggerInfo_WhileRoom(message) ==
    crashLog' = IF Len(logs) >= LOG_LIMIT THEN crashLog
                ELSE crashLog \o <<LogLine("stderr", message),
                                   LogLine("handler", message)>>
LoggerInfo(message) ==
    crashLog' = crashLog \o <<LogLine("stderr", message),
                              LogLine("handler", message)>>

\* on_print(message), first statement: logger.info(message)
OnPrint(message) ==
    /\ BgCanCall
    /\ LoggerInfo(message)
    /\ hist' = Append(hist, message)
    /\ bgMsg' = message
    /\ bgPc' = "print_168"
    /\ UNCHANGED <<bootVars, built, running, settingsVars, screenVars, logs, uiVars,
                   loopVars, raised, ghostVars>>

\* self.logs.append(message)
OnPrintAppend ==
    /\ bgPc = "print_168"
    /\ logs' = Append(logs, bgMsg)
    /\ bgPc' = "print_169"
    /\ UNCHANGED <<bootVars, built, running, settingsVars, screenVars, hist, crashLog,
                   bgMsg, uiVars, loopVars, raised, ghostVars>>

\* if len(self.logs) > 500: self.logs.pop(0)
Trimmed_PopLast(list) ==
    IF Len(list) > LOG_LIMIT THEN SubSeq(list, 1, Len(list) - 1) ELSE list
Trimmed(list) == IF Len(list) > LOG_LIMIT THEN Tail(list) ELSE list

OnPrintTrim ==
    /\ bgPc = "print_169"
    /\ logs' = Trimmed(logs)
    /\ bgPc' = "print_176"
    /\ UNCHANGED <<bootVars, built, running, settingsVars, screenVars, hist, crashLog,
                   bgMsg, uiVars, loopVars, raised, ghostVars>>

\* self._update_ui(update_logs_ui, message)
OnPrintPost ==
    /\ bgPc = "print_176"
    /\ UpdateUi("update_logs_ui", bgMsg)
    /\ bgPc' = "idle"
    /\ UNCHANGED <<bootVars, built, running, settingsVars, current, logs, hist,
                   crashLog, bgMsg, uiVars, loopVars, raised, ghostVars>>

Posted(func, arg) ==
    /\ BgCanCall
    /\ UpdateUi(func, arg)
    /\ UNCHANGED <<bootVars, built, running, settingsVars, current, logVars, uiVars,
                   loopVars, raised, ghostVars>>

OnStatus(status) == Posted("update_status", status)
OnProgress(progress) == Posted("update_progress", progress)
OnChannel(channel) == Posted("update_channel", channel)
OnDrop(drop) == Posted("update_drop", drop)
OnInventory(inventory) == Posted("update_inventory", inventory)

\* ------------------------------------------- the module level of main.py
appVars == <<built, running, settingsVars, screenVars, logs, hist, bgPc, bgMsg,
             uiVars, loopVars, raised, ghostVars>>

\* LOG_DIR exists or can be created, and crash.log in it can be opened.
DirUsable ==
    CASE logDir = "external" -> env.extOk
      [] logDir = "internal" -> env.intOk
      [] logDir = "home" -> env.homeDirOk
      [] OTHER -> FALSE

\* _write_log(text): creates LOG_DIR, opens crash.log for appending, writes
\* and closes; whatever goes wrong is swallowed.  Gives the file afterwards.
WriteLog(file, line) == IF DirUsable THEN Append(file, line) ELSE file

\* _excepthook, lines 71-73: the formatted traceback goes to crash.log under
\* a '=== CRASH' header.
Excepthook(file) == WriteLog(file, <<"excepthook", "=== CRASH", "traceback">>)

\* A traceback printed to sys.stderr: through the tee once it is installed.
PrintTraceback(file) ==
    IF tee THEN WriteLog(file, <<"stderr", "RAW", "traceback">>) ELSE file

\* An exception leaves the main thread: the interpreter calls sys.excepthook
\* and exits.  Installed, _excepthook writes its entry and then calls
\* sys.__excepthook__, which prints the traceback to sys.stderr; before
\* that the default hook alone prints it.
UncaughtOnMain(origin, origOk) ==
    /\ crashLog' = PrintTraceback(IF hook THEN Excepthook(crashLog) ELSE crashLog)
    /\ stderrOut' = IF origOk THEN Append(stderrOut, "traceback") ELSE stderrOut
    /\ crash' = [origin |-> origin, step |-> bootPc, hookAt |-> hook,
                 teeAt |-> tee, header |-> hook /\ DirUsable, passedOn |-> TRUE]
    /\ bootPc' = "dead"

\* The main thread is at module-level statement pc, outside any stream call.
AtBoot(pc) == bootPc = pc /\ teeOp.pc = "done"

\* LOG_DIR = _get_log_dir().  On Android the external directory is created,
\* or, when that fails with OSError, the internal path is returned as it is.
\* Elsewhere Path.home() is resolved, which raises RuntimeError when the home
\* directory cannot be determined.
GetLogDir ==
    /\ AtBoot("get_log_dir")
    /\ IF env.android \/ env.homeOk
       THEN /\ logDir' = IF ~env.android THEN "home"
                         ELSE IF env.extOk THEN "external" ELSE "internal"
            /\ bootPc' = "install_hook"
            /\ UNCHANGED <<crashLog, stderrOut, crash>>
       ELSE /\ logDir' = logDir
            /\ \E origOk \in BOOLEAN : UncaughtOnMain("boot", origOk)
    /\ UNCHANGED <<appVars, env, hook, tee, handles, teeOp, notify, nevents>>

\* sys.excepthook = _excepthook
InstallHook ==
    /\ AtBoot("install_hook")
    /\ hook' = TRUE
    /\ bootPc' = "install_tee"
    /\ UNCHANGED <<appVars, crashLog, env, logDir, tee, handles, stderrOut,
                   crash, teeOp, notify, nevents>>

\* sys.stderr = _TeeStream(sys.stderr)
InstallTee ==
    /\ AtBoot("install_tee")
    /\ tee' = TRUE
    /\ bootPc' = "write_start"
    /\ UNCHANGED <<appVars, crashLog, env, logDir, hook, handles, stderrOut,
                   crash, teeOp, notify, nevents>>

\* _write_log('=== START ...')
WriteStart ==
    /\ AtBoot("write_start")
    /\ crashLog' = WriteLog(crashLog, <<"boot", "=== START", "pid">>)
    /\ bootPc' = "imports"
    /\ UNCHANGED <<appVars, env, logDir, hook, tee, handles, stderrOut, crash,
                   teeOp, notify, nevents>>

\* The imports of asyncio, kivy and the application's own packages.
Imports ==
    /\ AtBoot("imports")
    /\ IF env.importsOk
       THEN /\ bootPc' = "basic_config"
            /\ UNCHANGED <<crashLog, stderrOut, crash>>
       ELSE \E origOk \in BOOLEAN : UncaughtOnMain("boot", origOk)
    /\ UNCHANGED <<appVars, env, logDir, hook, tee, handles, teeOp, notify,
                   nevents>>

\* logging.basicConfig(...): the root logger gets a handler on sys.stderr.
BasicConfig ==
    /\ AtBoot("basic_config")
    /\ bootPc' = "file_handler"
    /\ UNCHANGED <<appVars, crashLog, env, logDir, hook, tee, handles,
                   stderrOut, crash, teeOp, notify, nevents>>

\* crash_log_handler = logging.FileHandler(str(CRASH_LOG)): opens crash.log
\* at once and keeps it open; raises when the file cannot be opened.
FileHandlerOpen ==
    /\ AtBoot("file_handler")
    /\ IF DirUsable
       THEN /\ handles' = handles \cup {"crash_log_handler"}
            /\ bootPc' = "add_handler"
            /\ UNCHANGED <<crashLog, stderrOut, crash>>
       ELSE /\ handles' = handles
            /\ \E origOk \in BOOLEAN : UncaughtOnMain("boot", origOk)
    /\ UNCHANGED <<appVars, env, logDir, hook, tee, teeOp, notify, nevents>>

\* logging.getLogger().addHandler(crash_log_handler); logger.info("Crash log: ...")
AddHandler ==
    /\ AtBoot("add_handler")
    /\ LoggerInfo("Crash log")
    /\ bootPc' = "main"
    /\ UNCHANGED <<appVars, env, logDir, hook, tee, handles, stderrOut, crash,
                   teeOp, notify, nevents>>

\* main(): TwitchDropsMinerApp().run().  The application is constructed and
\* built, its loop thread runs and the client's coroutines are under way;
\* the steps in between are those of Spec.
Main ==
    /\ AtBoot("main")
    /\ bootPc' = "running"
    /\ built' = TRUE
    /\ current' = IF token # "" THEN "home" ELSE "login"
    /\ thrPc' = "running"
    /\ active' = TRUE
    /\ UNCHANGED <<env, logDir, hook, tee, handles, stderrOut, crash, teeOp,
                   notify, nevents, crashLog, running, settingsVars, screens,
                   uiQueue, uiExec, logs, hist, bgPc, bgMsg, uiVars, ready,
                   batchLeft, stopping, loopClosed, raised, ghostVars>>

\* ------------------------------------------------------------ _TeeStream
\* write(s), first statement: _write_log(s)
TeeWrite(text, origOk) ==
    /\ tee
    /\ bootPc # "dead"
    /\ teeOp.pc = "done"
    /\ nevents < MaxEvents
    /\ nevents' = nevents + 1
    /\ crashLog' = WriteLog(crashLog, <<"stderr", "RAW", text>>)
    /\ teeOp' = [op |-> "write", text |-> text, origOk |-> origOk,
                 logged |-> DirUsable, forwarded |-> FALSE, result |-> 0,
                 raised |-> FALSE, pc |-> "forward"]
    /\ UNCHANGED <<appVars, env, bootPc, logDir, hook, tee, handles,
                   stderrOut, crash, notify>>

\* write(s), the rest: self._orig.write(s) inside try/except Exception.
TeeWriteForward_Propagating ==
    /\ bootPc # "dead"
    /\ teeOp.pc = "forward"
    /\ stderrOut' = IF teeOp.origOk THEN Append(stderrOut, teeOp.text)
                    ELSE stderrOut
    /\ teeOp' = [teeOp EXCEPT !.forwarded = teeOp.origOk,
                              !.raised = ~teeOp.origOk, !.pc = "done"]
    /\ UNCHANGED <<appVars, crashLog, env, bootPc, logDir, hook, tee, handles,
                   crash, notify, nevents>>
TeeWriteForward ==
    /\ bootPc # "dead"
    /\ teeOp.pc = "forward"
    /\ stderrOut' = IF teeOp.origOk THEN Append(stderrOut, teeOp.text)
                    ELSE stderrOut
    /\ teeOp' = [teeOp EXCEPT !.forwarded = teeOp.origOk, !.pc = "done"]
    /\ UNCHANGED <<appVars, crashLog, env, bootPc, logDir, hook, tee, handles,
                   crash, notify, nevents>>

\* flush(): self._orig.flush() inside try/except Exception.
TeeFlush(origOk) ==
    /\ tee
    /\ bootPc # "dead"
    /\ teeOp.pc = "done"
    /\ nevents < MaxEvents
    /\ nevents' = nevents + 1
    /\ teeOp' = [NoTee EXCEPT !.op = "flush", !.origOk = origOk]
    /\ UNCHANGED <<appVars, crashLog, env, bootPc, logDir, hook, tee, handles,
                   stderrOut, crash, notify>>

\* fileno(): the original's descriptor, or -1 when asking for it fails.
TeeFileno(origOk) ==
    /\ tee
    /\ bootPc # "dead"
    /\ teeOp.pc = "done"
    /\ nevents < MaxEvents
    /\ nevents' = nevents + 1
    /\ teeOp' = [NoTee EXCEPT !.op = "fileno", !.origOk = origOk,
                              !.result = IF origOk THEN 2 ELSE -1]
    /\ UNCHANGED <<appVars, crashLog, env, bootPc, logDir, hook, tee, handles,
                   stderrOut, crash, notify>>

\* ---------------------------------------------------- uncaught exceptions
\* An exception leaves the main thread while the application runs.
UncaughtMain ==
    /\ bootPc = "running"
    /\ nevents < MaxEvents
    /\ nevents' = nevents + 1
    /\ \E origOk \in BOOLEAN : UncaughtOnMain("main", origOk)
    /\ UNCHANGED <<appVars, env, logDir, hook, tee, handles, teeOp, notify>>

\* An exception leaves _run_event_loop: async_thread ends.  For a thread
\* the interpreter calls threading.excepthook, which main.py leaves at its
\* default: the traceback is printed to sys.stderr and the process goes on.
UncaughtThread ==
    /\ bootPc = "running"
    /\ BgIdle
    /\ nevents < MaxEvents
    /\ nevents' = nevents + 1
    /\ thrPc' = "exited"
    /\ crashLog' = PrintTraceback(crashLog)
    /\ \E origOk \in BOOLEAN :
         stderrOut' = IF origOk THEN Append(stderrOut, "traceback") ELSE stderrOut
    /\ crash' = [origin |-> "thread", step |-> bootPc, hookAt |-> hook,
                 teeAt |-> tee, header |-> FALSE, passedOn |-> TRUE]
    /\ UNCHANGED <<built, running, settingsVars, screenVars, logs, hist, bgPc,
                   bgMsg, uiVars, ready, batchLeft, stopping, loopClosed,
                   active, raised, ghostVars, env, bootPc, logDir, hook, tee,
                   handles, teeOp, notify>>

\* An exception leaves a coroutine handed to run_coroutine_threadsafe: it is
\* stored in the future the call returned, which the controller drops.
UncaughtCoro ==
    /\ bootPc = "running"
    /\ BgIdle
    /\ active
    /\ nevents < MaxEvents
    /\ nevents' = nevents + 1
    /\ crash' = [origin |-> "coro", step |-> bootPc, hookAt |-> hook,
                 teeAt |-> tee, header |-> FALSE, passedOn |-> FALSE]
    /\ UNCHANGED <<appVars, crashLog, env, bootPc, logDir, hook, tee, handles,
                   stderrOut, teeOp, notify>>

\* ---------------------------------------------------------------- on_notify
ErrorLine(via, message) == <<via, "ERROR", message>>

\* logger.error(message), through the same two handlers as logger.info.
LoggerError(message) ==
    crashLog' = crashLog \o <<ErrorLine("stderr", message),
                              ErrorLine("handler", message)>>

\* _show_android_notification(title, message): the whole body is inside
\* try/except Exception, the handler logs "Notification error".
ShowAndroidNotification_Unguarded(title, fails) ==
    /\ crashLog' = crashLog
    /\ notify' = [title |-> title, failed |-> fails, propagated |-> fails,
                  pc |-> IF fails THEN "done" ELSE "log_199"]
ShowAndroidNotification(title, fails) ==
    /\ IF fails THEN LoggerError("Notification error") ELSE crashLog' = crashLog
    /\ notify' = [title |-> title, failed |-> fails, propagated |-> FALSE,
                  pc |-> "log_199"]

\* kivy.utils.platform: 'android' when ANDROID_ARGUMENT is in the environment.
Platform == IF env.android THEN "android" ELSE "linux"

\* on_notify(title, message), up to the notification.
OnNotify(title, fails) ==
    /\ bootPc = "running"
    /\ BgCanCall
    /\ notify.pc = "done"
    /\ nevents < MaxEvents
    /\ nevents' = nevents + 1
    /\ IF Platform = "android"
       THEN ShowAndroidNotification(title, fails)
       ELSE /\ ~fails
            /\ crashLog' = crashLog
            /\ notify' = [title |-> title, failed |-> FALSE,
                          propagated |-> FALSE, pc |-> "log_199"]
    /\ bgMsg' = title
    /\ bgPc' = IF notify'.pc = "done" THEN "idle" ELSE "notify_199"
    /\ UNCHANGED <<built, running, settingsVars, screenVars, logs, hist,
                   uiVars, loopVars, raised, ghostVars, env, bootPc, logDir,
                   hook, tee, handles, stderrOut, crash, teeOp>>

\* on_notify, last statement: logger.info(f"Notification: {title} - {message}")
OnNotifyLog ==
    /\ bootPc = "running"
    /\ bgPc = "notify_199"
    /\ LoggerInfo(bgMsg)
    /\ notify' = [notify EXCEPT !.pc = "done"]
    /\ bgPc' = "idle"
    /\ UNCHANGED <<built, running, settingsVars, screenVars, logs, hist, bgMsg,
                   uiVars, loopVars, raised, ghostVars, env, bootPc, logDir,
                   hook, tee, handles, stderrOut, crash, teeOp, nevents>>

\* ------------------------------------------------------- specifications
\* The controller and the loop: the UI thread's handlers against the
\* background thread's execution of what they submit.
Next ==
    \/ Build
    \/ CallStartMining
    \/ CallStopMining
    \/ CallLogin
    \/ CallLogout
    \/ CallOnStop
    \/ IfNotRunning
    \/ IfRunning
    \/ SubmitStart
    \/ SubmitStop
    \/ SetToken
    \/ ClearToken
    \/ Save
    \/ SaveForce
    \/ SubmitLogin
    \/ NavHome
    \/ NavLogin
    \/ StopMiningCalled
    \/ LoopStopRequest
    \/ RunEventLoop
    \/ RunOnce
    \/ LoopStop
    \/ EnsureFuture
    \/ RunForeverExit
    \/ ClientStart
    \/ ClientStop
    \/ ClientLogin

Spec == Init /\ [][Next]_vars

\* The callback path: the application is built and the loop runs the client.
InitLog ==
    /\ built = TRUE
    /\ running = TRUE
    /\ token = "abc123"
    /\ tokenVer = 0
    /\ savedToken = token
    /\ current \in NavTargets
    /\ screens = NoScreens
    /\ logs = <<>>
    /\ hist = <<>>
    /\ crashLog = <<>>
    /\ uiQueue = <<>>
    /\ uiExec = NoExec
    /\ uiPc = <<>>
    /\ uiArg = ""
    /\ callName = "none"
    /\ callLog = <<>>
    /\ callVer = 0
    /\ guardSaw = FALSE
    /\ ncalls = 0
    /\ thrPc = "running"
    /\ ready = <<>>
    /\ batchLeft = 0
    /\ stopping = FALSE
    /\ loopClosed = FALSE
    /\ active = TRUE
    /\ raised = FALSE
    /\ bgPc = "idle"
    /\ bgMsg = 0
    /\ startSubs = 1
    /\ stopReqs = 0
    /\ loginSaw = <<0, 0>>
    /\ Booted

OnPrintMain == Len(hist) < MaxMainPrints /\ \E m \in MainMsgs : OnPrint(m)

\* The callbacks of the client against the clock of the UI thread.
NextUi ==
    \/ OnPrintMain
    \/ OnPrintAppend
    \/ OnPrintTrim
    \/ OnPrintPost
    \/ \E st \in Statuses : OnStatus(st)
    \/ \E pr \in Progresses : OnProgress(pr)
    \/ \E ch \in Channels : OnChannel(ch)
    \/ \E dr \in Drops : OnDrop(dr)
    \/ \E inv \in Inventories : OnInventory(inv)
    \/ ClockTick
    \/ \E s \in NavTargets : Navigate(s)

SpecUi == InitLog /\ [][NextUi]_vars

\* The log path alone, on either screen: the n-th message printed is n.
OnPrintNth == Len(hist) < MaxPrints /\ OnPrint(Len(hist) + 1)

NextLog ==
    \/ OnPrintNth
    \/ OnPrintAppend
    \/ OnPrintTrim
    \/ OnPrintPost
    \/ ClockTick

SpecLog == InitLog /\ [][NextLog]_vars

\* The background thread is scheduled for as long as it has something to do.
BgNext ==
    \/ RunEventLoop
    \/ RunOnce
    \/ LoopStop
    \/ EnsureFuture
    \/ RunForeverExit
    \/ ClientStart
    \/ ClientStop
    \/ ClientLogin

FairSpec == Spec /\ WF_vars(BgNext)

\* The interpreter is about to run the module level of main.py, in any
\* environment; nothing of the application exists yet.
InitBoot ==
    /\ built = FALSE
    /\ running = FALSE
    /\ token = "abc123"
    /\ tokenVer = 0
    /\ savedToken = token
    /\ current = "none"
    /\ screens = NoScreens
    /\ logs = <<>>
    /\ hist = <<>>
    /\ crashLog = <<>>
    /\ uiQueue = <<>>
    /\ uiExec = NoExec
    /\ uiPc = <<>>
    /\ uiArg = ""
    /\ callName = "none"
    /\ callLog = <<>>
    /\ callVer = 0
    /\ guardSaw = FALSE
    /\ ncalls = 0
    /\ thrPc = "created"
    /\ ready = <<>>
    /\ batchLeft = 0
    /\ stopping = FALSE
    /\ loopClosed = FALSE
    /\ active = FALSE
    /\ raised = FALSE
    /\ bgPc = "idle"
    /\ bgMsg = 0
    /\ startSubs = 0
    /\ stopReqs = 0
    /\ loginSaw = <<0, 0>>
    /\ env \in Envs
    /\ bootPc = "get_log_dir"
    /\ logDir = "none"
    /\ hook = FALSE
    /\ tee = FALSE
    /\ handles = {}
    /\ stderrOut = <<>>
    /\ crash = NoCrash
    /\ teeOp = NoTee
    /\ notify = NoNotify
    /\ nevents = 0

TeeWriteAny == \E text \in Texts, origOk \in BOOLEAN : TeeWrite(text, origOk)
TeeFlushAny == \E origOk \in BOOLEAN : TeeFlush(origOk)
TeeFilenoAny == \E origOk \in BOOLEAN : TeeFileno(origOk)
OnNotifyAny == \E title \in Titles, fails \in BOOLEAN : OnNotify(title, fails)

\* The bootstrap, and then the stream calls, the uncaught exceptions and the
\* notifications of the running application.
NextBoot ==
    \/ GetLogDir
    \/ InstallHook
    \/ InstallTee
    \/ WriteStart
    \/ Imports
    \/ BasicConfig
    \/ FileHandlerOpen
    \/ AddHandler
    \/ Main
    \/ TeeWriteAny
    \/ TeeWriteForward
    \/ TeeFlushAny
    \/ TeeFilenoAny
    \/ UncaughtMain
    \/ UncaughtThread
    \/ UncaughtCoro
    \/ OnNotifyAny
    \/ OnNotifyLog

SpecBoot == InitBoot /\ [][NextBoot]_vars

\* ================================================================ claims
IsPrefix(s, t) == Len(s) <= Len(t) /\ s = SubSeq(t, 1, Len(s))
LastN(seq, n) ==
    IF Len(seq) <= n THEN seq ELSE SubSeq(seq, Len(seq) - n + 1, Len(seq))
Pending(kind, coro) ==
    \E i \in 1..Len(ready) : ready[i].kind = kind /\ ready[i].coro = coro

\* C1: between two confirmations of a stop, start_mining calls submit the
\* client's start coroutine at most once, whatever the background thread has
\* run of it so far.
C1_OneStartSubmission == startSubs <= 1

\* C2: when stop_mining evaluates its guard with the client missing or not
\* running, it returns at once: nothing is submitted to the loop and no state
\* of the controller, the settings, the screens or the loop changes.
C2_StopWhileNotRunningIsNoOp ==
    [][(Stmt = "if_running" /\ uiPc' # uiPc /\ ~(built /\ running))
         => /\ uiPc' = Return
            /\ UNCHANGED <<built, running, settingsVars, screenVars, logVars,
                           loopVars, raised, ghostVars, callLog>>]_vars

C2_Witness ==
    /\ callName = "stop_mining"
    /\ uiPc = <<>>
    /\ ~guardSaw
    /\ built
    /\ ~running
    /\ thrPc = "running"
    /\ callLog = <<>>

\* C3: once on_print has trimmed the list, self.logs is the last
\* min(n, 500) of the n messages passed to on_print so far, oldest first.
C3_LogsAreLastMessages ==
    bgPc \in {"idle", "print_176"} => logs = LastN(hist, LOG_LIMIT)

C3_Witness ==
    /\ bgPc = "idle"
    /\ Len(hist) = LOG_LIMIT + 2
    /\ Len(logs) = LOG_LIMIT
    /\ Head(logs) = 3
    /\ logs[LOG_LIMIT] = LOG_LIMIT + 2

\* C4: self.logs never holds more than 500 entries, in any state, those
\* inside a running on_print included.
C4_LogsNeverExceedLimit == Len(logs) <= LOG_LIMIT

\* C5: crash_log_handler has written to crash.log one line for every message
\* passed to on_print, in call order, whatever was evicted from self.logs
\* and whichever screen is shown.
FileMessages ==
    LET lines == SelectSeq(crashLog, LAMBDA e : e[1] = "handler")
    IN [i \in 1..Len(lines) |-> lines[i][3]]

C5_FileHoldsEveryMessage == FileMessages = hist

C5_Witness ==
    /\ bgPc = "idle"
    /\ Len(hist) = LOG_LIMIT + 2
    /\ Head(logs) = 3
    /\ FileMessages[1] = 1
    /\ Len(FileMessages) = LOG_LIMIT + 2
    /\ current = "home"

\* C6: a screen changes only in a step that runs a posted callback, and every
\* such step is a tick of the UI thread's clock that takes the callback from
\* the head of the queue, where an earlier, completed call of _update_ui put
\* it; the background thread takes no part in the step.
C6_UpdatesRunOnUiThreadLater ==
    /\ [][screens' # screens => uiExec'.tick # uiExec.tick]_vars
    /\ [][uiExec'.tick # uiExec.tick
            => /\ uiExec'.thread = "ui"
               /\ uiQueue # <<>>
               /\ uiExec'.func = Head(uiQueue).func
               /\ uiExec'.arg = Head(uiQueue).arg
               /\ uiQueue' = Tail(uiQueue)
               /\ bgPc' = bgPc
               /\ hist' = hist]_vars

C6_Witness ==
    /\ uiExec.thread = "ui"
    /\ uiExec.func = "update_status"
    /\ screens.status = "mining"
    /\ screens.inventory = <<"drop">>
    /\ screens.log = 1

\* C7: login(token) stores the token, saves the settings, submits the login
\* coroutine and shows 'home', in that order and without waiting for the
\* background thread; the login coroutine never reads a token older than the
\* one its login call stored.
LoginEffects(t) ==
    <<Ev("token", t, FALSE), Ev("save", t, FALSE),
      Ev("submit", "login", FALSE), Ev("current", "home", FALSE)>>

C7_LoginStoresSavesSubmitsShowsHome ==
    /\ callName = "login" => IsPrefix(callLog, LoginEffects(uiArg))
    /\ (callName = "login" /\ uiPc = <<>>)
         => /\ callLog = LoginEffects(uiArg)
            /\ token = uiArg
            /\ current = "home"
    /\ loginSaw[1] >= loginSaw[2]

C7_Witness ==
    /\ callName = "login"
    /\ uiPc = <<>>
    /\ uiArg = "abc123"
    /\ token = "abc123"
    /\ current = "home"
    /\ thrPc = "created"
    /\ Pending("submit", "login")

\* C8: logout() whose stop_mining finds the client running submits the stop
\* coroutine, then clears the token, saves the settings and shows 'login', in
\* that order.
LogoutEffects ==
    <<Ev("submit", "stop", FALSE), Ev("token", "", FALSE),
      Ev("save", "", FALSE), Ev("current", "login", FALSE)>>

C8_LogoutStopsThenClears ==
    /\ (callName = "logout" /\ guardSaw) => IsPrefix(callLog, LogoutEffects)
    /\ (callName = "logout" /\ guardSaw /\ uiPc = <<>>)
         => /\ callLog = LogoutEffects
            /\ token = ""
            /\ current = "login"

C8_Witness ==
    /\ callName = "logout"
    /\ guardSaw
    /\ uiPc = <<>>
    /\ callLog = LogoutEffects
    /\ token = ""
    /\ current = "login"
    /\ Pending("submit", "stop")

\* C9: on_stop requests the loop to stop and then saves the settings with
\* force=True before it returns; the save is never held up by the state of
\* the background thread.
OnStopEffects(t) == <<Ev("loop_stop", "", FALSE), Ev("save", t, TRUE)>>

C9_OnStopStopsThenForcesSave ==
    /\ callName = "on_stop" => IsPrefix(callLog, OnStopEffects(token))
    /\ (callName = "on_stop" /\ uiPc = <<>>)
         => callLog = OnStopEffects(token) /\ savedToken = token
    /\ Stmt = "save_force" => ENABLED SaveForce

C9_Witness ==
    /\ callName = "on_stop"
    /\ uiPc = <<>>
    /\ callLog = OnStopEffects(token)
    /\ savedToken = token
    /\ thrPc = "exited"
    /\ tokenVer > 0

\* C10: no request to stop the loop raises; a request made after an earlier
\* one changes nothing of the loop but its queue; once a request is made the
\* loop exits, and it stays exited, open and not stopping, however many
\* requests follow.
C10_StopIsIdempotent ==
    /\ [](~raised)
    /\ [](thrPc = "exited" => (stopReqs >= 1 /\ ~stopping /\ ~loopClosed))
    /\ [][thrPc = "exited" => thrPc' = "exited"]_vars
    /\ [][(stopReqs' > stopReqs /\ stopReqs >= 1)
            => UNCHANGED <<thrPc, stopping, loopClosed, batchLeft, raised>>]_vars
    /\ (stopReqs >= 1) ~> (thrPc = "exited")

C10_Witness ==
    /\ stopReqs >= 2
    /\ thrPc = "exited"
    /\ ~raised
    /\ callName = "on_stop"
    /\ uiPc = <<>>
    /\ Pending("stop", "none")

\* ---------------------------------------------------------------- C11
\* C11: when the log directory can be created neither at the external
\* location nor at the internal one, _write_log raises nothing and no
\* startup step that touches crash.log ends the program.
C11_UnusableLogDirNeverEndsStartup ==
    (env.android /\ ~env.extOk /\ ~env.intOk)
        => ~(bootPc = "dead" /\ crash.step \in {"write_start", "file_handler",
                                                "add_handler"})

\* ---------------------------------------------------------------- C12
\* C12: every exception that goes uncaught while the application runs, on
\* the main thread, on another thread or in a coroutine submitted to the
\* loop, leaves a '=== CRASH' entry with its traceback in crash.log (when the
\* file can be written), placed before the output of the default handler,
\* and is always passed on to the default handler.
C12_EveryUncaughtExceptionIsLogged ==
    crash.origin \in {"main", "thread", "coro"}
        => /\ crash.passedOn
           /\ DirUsable => crash.header
           /\ (crash.header /\ bootPc = "dead")
                 => /\ Len(crashLog) >= 2
                    /\ crashLog[Len(crashLog) - 1] =
                           <<"excepthook", "=== CRASH", "traceback">>
                    /\ crashLog[Len(crashLog)] = <<"stderr", "RAW", "traceback">>

\* ---------------------------------------------------------------- C13
\* C13: write(s) on the tee first appends s to crash.log (as far as the file
\* can be written) and leaves the original stream alone, then forwards s to
\* the original stream, also when the append failed; no failure of the
\* original stream reaches the caller of write, flush or fileno, and fileno
\* answers -1 when the original cannot tell its descriptor.
C13_TeeLogsThenForwardsAndNeverRaises ==
    /\ [](~teeOp.raised)
    /\ []((teeOp.op = "write" /\ teeOp.pc = "done")
            => teeOp.forwarded = teeOp.origOk)
    /\ []((teeOp.pc = "forward" /\ bootPc # "dead") => ENABLED TeeWriteForward)
    /\ [](teeOp.op = "fileno" => teeOp.result = IF teeOp.origOk THEN 2 ELSE -1)
    /\ [][(teeOp.pc = "done" /\ teeOp'.pc = "forward")
            => /\ crashLog' = IF DirUsable
                              THEN Append(crashLog, <<"stderr", "RAW", teeOp'.text>>)
                              ELSE crashLog
               /\ teeOp'.logged = DirUsable
               /\ stderrOut' = stderrOut]_vars
    /\ [][(teeOp.pc = "forward" /\ teeOp'.pc = "done")
            => /\ crashLog' = crashLog
               /\ stderrOut' = IF teeOp.origOk THEN Append(stderrOut, teeOp.text)
                               ELSE stderrOut]_vars

\* A write whose append to crash.log failed has reached the original stream.
C13_Witness ==
    /\ teeOp.op = "write"
    /\ teeOp.pc = "done"
    /\ ~teeOp.logged
    /\ teeOp.forwarded
    /\ stderrOut # <<>>
    /\ crashLog = <<>>

\* ---------------------------------------------------------------- C14
\* C14: whenever a module-level statement of main.py raises, _excepthook and
\* the stderr tee were both installed before it ran, so the failure is put
\* into crash.log (when the file can be written).
C14_HandlersInstalledBeforeAnyBootFailure ==
    crash.origin = "boot"
        => /\ crash.hookAt
           /\ crash.teeAt
           /\ DirUsable => crash.header

\* ---------------------------------------------------------------- C15
\* C15: when the platform notification fails inside on_notify, the failure
\* is logged at level ERROR and goes no further: on_notify carries on to its
\* last statement, which (the process alive) logs the notification line for
\* the title.
C15_NotificationFailureIsContained ==
    /\ [](~notify.propagated)
    /\ [](notify.pc = "log_199" => bgPc = "notify_199")
    /\ []((notify.pc = "log_199" /\ bootPc = "running") => ENABLED OnNotifyLog)
    /\ [][(notify.pc = "done" /\ notify' # notify)
            => /\ notify'.pc = "log_199"
               /\ crashLog' = IF notify'.failed
                              THEN crashLog \o
                                   <<ErrorLine("stderr", "Notification error"),
                                     ErrorLine("handler", "Notification error")>>
                              ELSE crashLog]_vars
    /\ [][(notify.pc = "log_199" /\ notify'.pc = "done")
            => /\ bgPc' = "idle"
               /\ crashLog' = crashLog \o <<LogLine("stderr", notify.title),
                                            LogLine("handler", notify.title)>>]_vars

\* A failed notification: the error line, then the notification line.
C15_Witness ==
    /\ notify.failed
    /\ notify.pc = "done"
    /\ bgPc = "idle"
    /\ Len(crashLog) >= 4
    /\ crashLog[Len(crashLog) - 2] = ErrorLine("handler", "Notification error")
    /\ crashLog[Len(crashLog)] = LogLine("handler", notify.title)

\* ---------------------------------------------------------------- C16
\* C16: the log list and what the screens display change only in a step in
\* which the UI thread runs a posted callback, and the current screen never
\* changes in a step of the background thread.
C16_UiStateChangesOnlyOnUiThread ==
    /\ [][(logs' # logs \/ screens' # screens)
            => /\ uiExec'.tick # uiExec.tick
               /\ uiExec'.thread = "ui"
               /\ bgPc' = bgPc]_vars
    /\ [][current' # current => (bgPc' = bgPc /\ uiQueue' = uiQueue)]_vars

\* ---------------------------------------------------------------- C17
\* C17: the running indicator, which the guards of start_mining and
\* stop_mining read on the UI thread, is written in no step of the
\* background thread: it changes only in steps of the UI thread's handlers.
C17_RunningIsNotShared ==
    [][running' # running => (uiPc' # uiPc /\ ready' = ready)]_vars

\* ---------------------------------------------------------------- C18
\* C18: no writer of crash.log holds the file open between two appends.
C18_NoWriterHoldsTheFileOpen == handles = {}

\* ---------------------------------------------------------------- C19
\* C19: when the callback posted by on_print runs, add_log(message) is called
\* if and only if 'logs' is the screen shown at that moment, whatever screen
\* was shown when on_print posted it; on_print appends the message to the log
\* list whichever screen is shown, and running the callback leaves the list
\* alone.
C19_AddLogFollowsScreenAtExecution ==
    /\ [][(uiExec'.tick # uiExec.tick /\ uiExec'.func = "update_logs_ui")
            => /\ uiExec'.applied = (current = "logs")
               /\ screens' = IF current = "logs"
                             THEN [screens EXCEPT !.log = uiExec'.arg]
                             ELSE screens
               /\ logs' = logs
               /\ \E i \in 1..Len(logs) : logs[i] = uiExec'.arg]_vars
    /\ [][(bgPc = "print_168" /\ bgPc' # bgPc)
            => logs' = Append(logs, bgMsg)]_vars

\* Posted while another screen was shown, run with 'logs' shown: add_log
\* was called.
C19_Witness ==
    /\ uiExec.func = "update_logs_ui"
    /\ uiExec.thread = "ui"
    /\ uiExec.at = "home"
    /\ current = "logs"
    /\ uiExec.applied
    /\ screens.log = uiExec.arg
    /\ logs = <<uiExec.arg>>

\* ---------------------------------------------------------------- C20
\* C20: once run_forever has returned after on_stop's request, a coroutine
\* submitted by start_mining, stop_mining, login or logout is taken into the
\* ready queue without an exception and stays there: it is never turned into
\* a task step, never removed, and the client's state never changes again;
\* the handler itself goes on, so login still stores the token, saves and
\* shows 'home' and logout still clears it, saves and shows 'login'.
C20_LateSubmissionsAcceptedNeverRun ==
    /\ [][thrPc = "exited"
            => /\ IsPrefix(ready, ready')
               /\ running' = running
               /\ active' = active
               /\ loginSaw' = loginSaw
               /\ ~raised']_vars
    /\ [](\A i \in 1..Len(ready) : ready[i].late => ready[i].kind # "step")
    /\ [][(thrPc = "exited" /\ uiPc' # uiPc
           /\ Stmt \in {"submit_start", "submit_stop", "submit_login"})
            => /\ Len(ready') = Len(ready) + 1
               /\ ready'[Len(ready')].late
               /\ ready'[Len(ready')].kind = "submit"
               /\ uiPc' = Advance]_vars
    /\ []((thrPc = "exited" /\ uiPc = <<>> /\ callName = "login")
            => (callLog = LoginEffects(uiArg) /\ token = uiArg
                /\ current = "home"))
    /\ []((thrPc = "exited" /\ uiPc = <<>> /\ callName = "logout")
            => (callLog \in {LogoutEffects, Tail(LogoutEffects)}
                /\ token = "" /\ current = "login"))

\* login called after the loop has exited: its coroutine waits in the ready
\* queue for good, the token is stored and 'home' is shown.
C20_Witness ==
    /\ thrPc = "exited"
    /\ stopReqs >= 1
    /\ callName = "login"
    /\ uiPc = <<>>
    /\ ~raised
    /\ \E i \in 1..Len(ready) :
         ready[i].late /\ ready[i].kind = "submit" /\ ready[i].coro = "login"
    /\ token = uiArg
    /\ current = "home"
    /\ loginSaw = <<0, 0>>

====
